---- MODULE Spec2Model ----
(***************************************************************************)
(* Model of pi_any (src/src/lib.rs): the capability adapters AsAny /       *)
(* AsMutAny, the ownership erasure traits BoxAny / RcAny / ArcAny, the     *)
(* four generator macros impl_downcast!, impl_downcast_box!,               *)
(* impl_downcast_rc!, impl_downcast_arc!, and the operations they emit     *)
(* (is, downcast_ref, downcast_mut, downcast).                             *)
(*                                                                         *)
(* A wrapper is a record [own, static, ty, val]:                           *)
(*   own    - the ownership model holding the payload ("Box", "Rc", "Arc"; *)
(*            "ref" / "mut" for a borrowed reference)                      *)
(*   static - the static type the holder sees ("dyn Trait", "dyn Any",     *)
(*            "dyn Any + Send + Sync", or a concrete type name)            *)
(*   ty     - the concrete type of the payload (what its vtable reports)   *)
(*   val    - the payload's field (Foo.0 / Bar.0)                          *)
(***************************************************************************)
EXTENDS Integers, Sequences, FiniteSets, TLC

\* ------------------------------------------------------------------ bounds
\* Payload field values range over 0..MaxVal.
MaxVal == 1
\* Number of concrete types implementing the interface.
NumTypes == 3
\* Longest list of generic parameters / associated types in a declaration.
MaxSlots == 1
\* The count of consecutive failed consuming downcasts saturates here.
MaxChain == 2
\* Most handles (Rc / Arc clones, one per holder) to one payload.
MaxHandles == 2

\* ------------------------------------------------------- concrete payloads
\* The implementors of the interface: Foo and Bar of the test module, and
\* further implementors of the same shape.
TypeNames == <<"Foo", "Bar", "Baz", "Qux">>

Concrete == {TypeNames[i] : i \in 1..NumTypes}

Vals == 0..MaxVal

\* A type-identity mechanism that hands every type the same token.
TypeIdCollide(T) == 1

\* TypeId::of::<T>(): one token per concrete type; every other type (the
\* interface itself, a wrapper type) has a token of its own kind.
TypeIdOf(T) ==
    IF \E i \in 1..Len(TypeNames) : TypeNames[i] = T
    THEN CHOOSE i \in 1..Len(TypeNames) : TypeNames[i] = T
    ELSE 0

Owns == {"Box", "Rc", "Arc"}

DynTrait == "dyn Trait"

\* No wrapper: the binding has been moved out of (or never made).
Moved == [own |-> "none", static |-> "none", ty |-> "none", val |-> 0]

\* ------------------------------------------------------------ the generator
Macros == {"impl_downcast", "impl_downcast_box", "impl_downcast_rc", "impl_downcast_arc"}

\* The public arms of each macro, in source order.
Forms == {"plain", "empty_angle", "generic", "generic_where", "assoc", "assoc_where",
          "generic_assoc", "generic_assoc_where",
          "concrete_generic", "concrete_assoc", "concrete_generic_assoc"}

GenericIdents == <<"T", "S", "R">>
AssocIdents == <<"H", "G", "F">>
ConcreteTys == <<"u32", "f32", "f64">>

Prefix(s, n) == SubSeq(s, 1, n)

\* A parameter of the trait path: `T`, `H = H`, `u32`, `H = f32`.
Param(name, eq) == [name |-> name, eq |-> eq]

\* A where-predicate `slot: bound`.
Pred(slot, bound) == [slot |-> slot, bound |-> bound]

\* The author's predicates: the first np of the declared slots, each `: Copy`.
AuthorPreds(slots, np) == [i \in 1..np |-> Pred(slots[i], "Copy")]

\* @impl_body: is and downcast_ref, both on &self.
ImplBody(params) ==
    << [name |-> "is", self |-> "ref", bound |-> params],
       [name |-> "downcast_ref", self |-> "ref", bound |-> params] >>

\* An @impl_body_mut that emits nothing.
ImplBodyMutNone(params) == << >>

\* @impl_body_mut: downcast_mut on &mut self.
ImplBodyMut(params) ==
    << [name |-> "downcast_mut", self |-> "mut", bound |-> params] >>

\* @impl_body_box: downcast on Box<Self>.
ImplBodyBox(params) ==
    << [name |-> "downcast", self |-> "Box", bound |-> params] >>

\* An @impl_body_rc pasted from @impl_body_box with its receiver left as Box.
ImplBodyRcAsBox(params) ==
    << [name |-> "downcast", self |-> "Box", bound |-> params] >>

\* @impl_body_rc: downcast on Rc<Self>.
ImplBodyRc(params) ==
    << [name |-> "downcast", self |-> "Rc", bound |-> params] >>

\* @impl_body_arc: downcast on Arc<Self>.
ImplBodyArc(params) ==
    << [name |-> "downcast", self |-> "Arc", bound |-> params] >>

\* @as_item: the tokens parsed as one impl item.
AsItem(generics, params, where, methods) ==
    [generics |-> generics, params |-> params, where |-> where, methods |-> methods]

\* An @inject_where whose third arm passes the author's predicates on and
\* injects nothing.
InjectWhereAuthorOnly(generics, params, types, preds, methods) ==
    IF types = << >> /\ preds = << >>
    THEN AsItem(generics, params, << >>, methods)
    ELSE IF preds = << >>
    THEN AsItem(generics, params,
                [i \in 1..Len(types) |-> Pred(types[i], "Any + 'static")], methods)
    ELSE AsItem(generics, params, preds, methods)

\* @inject_where, its three arms in order.
InjectWhere(generics, params, types, preds, methods) ==
    IF types = << >> /\ preds = << >>
    THEN AsItem(generics, params, << >>, methods)
    ELSE IF preds = << >>
    THEN AsItem(generics, params,
                [i \in 1..Len(types) |-> Pred(types[i], "Any + 'static")], methods)
    ELSE AsItem(generics, params,
                [i \in 1..Len(types) |-> Pred(types[i], "Any + 'static")] \o preds, methods)

\* impl_downcast! @impl_full: the probes and downcast_mut.
impl_downcast_full(param_types, forall_types, preds) ==
    InjectWhere(forall_types, param_types, forall_types, preds,
                ImplBody(param_types) \o ImplBodyMut(param_types))

\* impl_downcast_box! @impl_full: the probes, the Box downcast, downcast_mut.
impl_downcast_box_full(param_types, forall_types, preds) ==
    InjectWhere(forall_types, param_types, forall_types, preds,
                ImplBody(param_types) \o ImplBodyBox(param_types)
                    \o ImplBodyMut(param_types))

\* impl_downcast_rc! @impl_full: the probes and the Rc downcast.
impl_downcast_rc_full(param_types, forall_types, preds) ==
    InjectWhere(forall_types, param_types, forall_types, preds,
                ImplBody(param_types) \o ImplBodyRc(param_types))

\* impl_downcast_arc! @impl_full: the probes and the Arc downcast.
impl_downcast_arc_full(param_types, forall_types, preds) ==
    InjectWhere(forall_types, param_types, forall_types, preds,
                ImplBody(param_types) \o ImplBodyArc(param_types))

\* The @impl_full arm of the macro that was invoked.
ImplFull(macro, param_types, forall_types, preds) ==
    CASE macro = "impl_downcast" ->
            impl_downcast_full(param_types, forall_types, preds)
      [] macro = "impl_downcast_box" ->
            impl_downcast_box_full(param_types, forall_types, preds)
      [] macro = "impl_downcast_rc" ->
            impl_downcast_rc_full(param_types, forall_types, preds)
      [] macro = "impl_downcast_arc" ->
            impl_downcast_arc_full(param_types, forall_types, preds)

\* A declaration: the idents after `<`, the idents (and, for the concrete
\* forms, the types) after `assoc`, and the tokens after `where`.
Decls(form) ==
    LET NT == IF form \in {"generic", "generic_where", "generic_assoc",
                           "generic_assoc_where", "concrete_generic",
                           "concrete_generic_assoc"}
              THEN 1..MaxSlots ELSE {0}
        NA == IF form \in {"assoc", "assoc_where", "generic_assoc",
                           "generic_assoc_where", "concrete_assoc",
                           "concrete_generic_assoc"}
              THEN 1..MaxSlots ELSE {0}
        conc == form \in {"concrete_generic", "concrete_assoc", "concrete_generic_assoc"}
    IN  { [types  |-> Prefix(IF conc THEN ConcreteTys ELSE GenericIdents, nt),
           atypes |-> Prefix(AssocIdents, na),
           aty    |-> IF conc THEN Prefix(ConcreteTys, na) ELSE Prefix(AssocIdents, na),
           preds  |-> AuthorPreds(Prefix(GenericIdents, nt) \o Prefix(AssocIdents, na), np)]
          : <<nt, na, np>> \in
              { t \in NT \X NA \X (0..(2 * MaxSlots)) :
                  IF form \in {"generic_where", "assoc_where", "generic_assoc_where"}
                  THEN t[3] >= 1 /\ t[3] <= t[1] + t[2]
                  ELSE t[3] = 0 } }

AssocParams(d) == [i \in 1..Len(d.atypes) |-> Param(d.atypes[i], d.aty[i])]

TypeParams(d) == [i \in 1..Len(d.types) |-> Param(d.types[i], "")]

\* Public arms in which the concrete-assoc arm of a variant macro was left
\* calling impl_downcast! { @impl_full .. }.
ExpandSlip(macro, form, d) ==
    CASE form \in {"plain", "empty_angle"} ->
            ImplFull(macro, << >>, << >>, << >>)
      [] form = "generic" ->
            ImplFull(macro, TypeParams(d), d.types, << >>)
      [] form = "generic_where" ->
            ImplFull(macro, TypeParams(d), d.types, d.preds)
      [] form = "assoc" ->
            ImplFull(macro, AssocParams(d), d.atypes, << >>)
      [] form = "assoc_where" ->
            ImplFull(macro, AssocParams(d), d.atypes, d.preds)
      [] form = "generic_assoc" ->
            ImplFull(macro, TypeParams(d) \o AssocParams(d), d.types \o d.atypes, << >>)
      [] form = "generic_assoc_where" ->
            ImplFull(macro, TypeParams(d) \o AssocParams(d), d.types \o d.atypes, d.preds)
      [] form = "concrete_generic" ->
            ImplFull(macro, TypeParams(d), << >>, << >>)
      [] form = "concrete_assoc" ->
            ImplFull("impl_downcast", AssocParams(d), << >>, << >>)
      [] form = "concrete_generic_assoc" ->
            ImplFull(macro, TypeParams(d) \o AssocParams(d), << >>, << >>)

\* The public arms: each rewrites the declaration to @impl_full.
Expand(macro, form, d) ==
    CASE form \in {"plain", "empty_angle"} ->
            ImplFull(macro, << >>, << >>, << >>)
      [] form = "generic" ->
            ImplFull(macro, TypeParams(d), d.types, << >>)
      [] form = "generic_where" ->
            ImplFull(macro, TypeParams(d), d.types, d.preds)
      [] form = "assoc" ->
            ImplFull(macro, AssocParams(d), d.atypes, << >>)
      [] form = "assoc_where" ->
            ImplFull(macro, AssocParams(d), d.atypes, d.preds)
      [] form = "generic_assoc" ->
            ImplFull(macro, TypeParams(d) \o AssocParams(d), d.types \o d.atypes, << >>)
      [] form = "generic_assoc_where" ->
            ImplFull(macro, TypeParams(d) \o AssocParams(d), d.types \o d.atypes, d.preds)
      [] form = "concrete_generic" ->
            ImplFull(macro, TypeParams(d), << >>, << >>)
      [] form = "concrete_assoc" ->
            ImplFull(macro, AssocParams(d), << >>, << >>)
      [] form = "concrete_generic_assoc" ->
            ImplFull(macro, TypeParams(d) \o AssocParams(d), << >>, << >>)

\* ------------------------------------------------------- results of a call
Bool(b) == [kind |-> "Bool", flag |-> b, w |-> Moved]

Some(w) == [kind |-> "Some", flag |-> TRUE, w |-> w]

None == [kind |-> "None", flag |-> FALSE, w |-> Moved]

Ok(w) == [kind |-> "Ok", flag |-> TRUE, w |-> w]

Err(w) == [kind |-> "Err", flag |-> FALSE, w |-> w]

\* The thread unwinds: Result::unwrap on an Err.
Panic == [kind |-> "Panic", flag |-> FALSE, w |-> Moved]

unwrap(r) == IF r.kind = "Ok" THEN r ELSE Panic

\* -------------------------------------------------- std::any::Any, as called
\* <dyn Any>::is::<T>(): the payload's TypeId against TypeId::of::<T>().
any_is(a, T) == TypeIdOf(a.ty) = TypeIdOf(T)

\* A downcast_ref that hands out a reference to a fresh default value.
any_downcast_ref_default(a, T) ==
    IF TypeIdOf(a.ty) = TypeIdOf(T)
    THEN [kind |-> "Some", flag |-> TRUE,
          w |-> [own |-> "ref", static |-> T, ty |-> a.ty, val |-> 0]]
    ELSE [kind |-> "None", flag |-> FALSE, w |-> Moved]

\* <dyn Any>::downcast_ref::<T>().
any_downcast_ref(a, T) ==
    IF any_is(a, T)
    THEN Some([own |-> "ref", static |-> T, ty |-> a.ty, val |-> a.val])
    ELSE None

\* <dyn Any>::downcast_mut::<T>().
any_downcast_mut(a, T) ==
    IF any_is(a, T)
    THEN Some([own |-> "mut", static |-> T, ty |-> a.ty, val |-> a.val])
    ELSE None

\* Box<dyn Any>::downcast, Rc<dyn Any>::downcast, Arc<dyn Any + Send + Sync>::downcast.
any_downcast(a, T) ==
    IF any_is(a, T) THEN Ok([a EXCEPT !.static = T]) ELSE Err(a)

\* ------------------------------------------------------ capability adapters
\* An as_any that reports the interface type instead of the payload's.
as_any_outer(self) ==
    [own |-> "ref", static |-> "dyn Any", ty |-> self.static, val |-> self.val]

\* AsAny::as_any: `self` as &dyn Any, through the payload's own vtable.
as_any(self) ==
    [own |-> "ref", static |-> "dyn Any", ty |-> self.ty, val |-> self.val]

\* An as_any_mut that reports the interface type instead of the payload's.
as_any_mut_outer(self) ==
    [own |-> "mut", static |-> "dyn Any", ty |-> self.static, val |-> self.val]

\* AsMutAny::as_any_mut: `self` as &mut dyn Any.
as_any_mut(self) ==
    [own |-> "mut", static |-> "dyn Any", ty |-> self.ty, val |-> self.val]

\* ------------------------------------------------- ownership erasure traits
BoxAny_into_any(self) == [self EXCEPT !.static = "dyn Any"]

\* An Rc erasure that moves the payload into a Box.
RcAny_into_any_boxed(self) == [self EXCEPT !.static = "dyn Any", !.own = "Box"]

RcAny_into_any(self) == [self EXCEPT !.static = "dyn Any"]

\* An Arc erasure that erases the Arc itself, not the payload in it.
ArcAny_into_any_wrapped(self) ==
    [self EXCEPT !.static = "dyn Any + Send + Sync", !.ty = "Arc<dyn Trait>"]

ArcAny_into_any(self) == [self EXCEPT !.static = "dyn Any + Send + Sync"]

\* ------------------------------------------------- the generated operations
is(self, T) == any_is(as_any(self), T)

downcast_ref(self, T) == any_downcast_ref(as_any(self), T)

downcast_mut(self, T) == any_downcast_mut(as_any_mut(self), T)

\* A Box downcast that hands back the erased box on a mismatch.
downcast_box_erased(self, T) ==
    IF is(self, T)
    THEN unwrap(any_downcast(BoxAny_into_any(self), T))
    ELSE Err(BoxAny_into_any(self))

downcast_box(self, T) ==
    IF is(self, T)
    THEN unwrap(any_downcast(BoxAny_into_any(self), T))
    ELSE Err(self)

\* An Rc downcast whose guard is inverted.
downcast_rc_inverted(self, T) ==
    IF ~is(self, T)
    THEN unwrap(any_downcast(RcAny_into_any(self), T))
    ELSE Err(self)

downcast_rc(self, T) ==
    IF is(self, T)
    THEN unwrap(any_downcast(RcAny_into_any(self), T))
    ELSE Err(self)

\* An Arc downcast whose guard is inverted.
downcast_arc_inverted(self, T) ==
    IF ~is(self, T)
    THEN unwrap(any_downcast(ArcAny_into_any(self), T))
    ELSE Err(self)

downcast_arc(self, T) ==
    IF is(self, T)
    THEN unwrap(any_downcast(ArcAny_into_any(self), T))
    ELSE Err(self)

\* ------------------------------------------------------------------- state
VARIABLES
    macro,   \* the generator macro the interface author invokes
    form,    \* the public arm the invocation matches
    decl,    \* the invocation's tokens
    block,   \* the impl block the invocation expands to
    pc,      \* "declared" -> "generated" -> "live"
    base,    \* the caller's wrapper typed as the interface, or Moved
    res,     \* the last call: [op, probe, arg, ret]
    erased,  \* the concrete value as it was when it was erased to the interface
    chain,   \* the failed consuming downcasts since the last write: how many,
             \* and the wrapper the first of them was given
    cell,    \* a payload held through handles: [own, ty, val]
    hs,      \* the static type of each handle to the cell, "none" for no handle
    th       \* each holder's call: [pc, op, probe, snap, ret]

\* The caller's single wrapper and the generator's state.
single == <<macro, form, decl, block, pc, base, erased, res, chain>>

\* The payload held through several handles.
shared == <<cell, hs, th>>

vars == <<macro, form, decl, block, pc, base, erased, res, chain, cell, hs, th>>

Handles == 1..MaxHandles

NoCell == [own |-> "none", ty |-> "none", val |-> 0]

\* A holder that has made no call.
Idle == [pc |-> "idle", op |-> "none", probe |-> "none", snap |-> Moved, ret |-> None]

NoBlock == AsItem(<< >>, << >>, << >>, << >>)

NoCall == [op |-> "none", probe |-> "none", arg |-> 0, ret |-> None]

NoChain == [n |-> 0, start |-> Moved]

Call(op, probe, arg, ret) == [op |-> op, probe |-> probe, arg |-> arg, ret |-> ret]

\* The impl block has a method of this name and receiver.
Emits(b, name, self) ==
    \E i \in 1..Len(b.methods) : b.methods[i].name = name /\ b.methods[i].self = self

Init ==
    /\ macro \in Macros
    /\ form \in Forms
    /\ decl \in Decls(form)
    /\ block = NoBlock
    /\ pc = "declared"
    /\ base = Moved
    /\ erased = Moved
    /\ res = NoCall
    /\ chain = NoChain
    /\ cell = NoCell
    /\ hs = [h \in Handles |-> "none"]
    /\ th = [h \in Handles |-> Idle]

\* The compiler expands the invocation.
Generate ==
    /\ pc = "declared"
    /\ block' = Expand(macro, form, decl)
    /\ pc' = "generated"
    /\ UNCHANGED <<macro, form, decl, base, erased, res, chain, shared>>

\* A concrete value is put behind a wrapper and erased to the interface.
New(own, T, v) ==
    /\ pc = "generated"
    /\ erased' = [own |-> own, static |-> T, ty |-> T, val |-> v]
    /\ base' = [erased' EXCEPT !.static = DynTrait]
    /\ pc' = "live"
    /\ UNCHANGED <<macro, form, decl, block, res, chain, shared>>

Callable == pc = "live" /\ base # Moved /\ res.ret.kind # "Panic"

\* base.is::<U>()
CallIs(U) ==
    /\ Callable
    /\ Emits(block, "is", "ref")
    /\ res' = Call("is", U, 0, Bool(is(base, U)))
    /\ UNCHANGED <<macro, form, decl, block, pc, base, erased, chain, shared>>

\* base.downcast_ref::<U>()
CallDowncastRef(U) ==
    /\ Callable
    /\ Emits(block, "downcast_ref", "ref")
    /\ res' = Call("downcast_ref", U, 0, downcast_ref(base, U))
    /\ UNCHANGED <<macro, form, decl, block, pc, base, erased, chain, shared>>

\* if let Some(x) = base.downcast_mut::<U>() { x.0 = v; }
SetVal(U, v) ==
    /\ Callable
    /\ Emits(block, "downcast_mut", "mut")
    /\ LET r == downcast_mut(base, U)
       IN  /\ res' = Call("downcast_mut", U, v, r)
           /\ base' = IF r.kind = "Some" THEN [base EXCEPT !.val = v] ELSE base
    /\ chain' = NoChain
    /\ UNCHANGED <<macro, form, decl, block, pc, erased, shared>>

\* base.downcast::<U>(): the wrapper is moved into the call.
CallDowncast(U) ==
    /\ Callable
    /\ Emits(block, "downcast", base.own)
    /\ LET r == CASE base.own = "Box" -> downcast_box(base, U)
                  [] base.own = "Rc" -> downcast_rc(base, U)
                  [] base.own = "Arc" -> downcast_arc(base, U)
       IN  /\ res' = Call("downcast", U, 0, r)
           /\ chain' = IF r.kind = "Err"
                       THEN [n |-> IF chain.n < MaxChain THEN chain.n + 1 ELSE MaxChain,
                             start |-> IF chain.n = 0 THEN base ELSE chain.start]
                       ELSE chain
    /\ base' = Moved
    /\ UNCHANGED <<macro, form, decl, block, pc, erased, shared>>

\* let base = res.unwrap_err();
UnwrapErr ==
    /\ pc = "live"
    /\ base = Moved
    /\ res.op = "downcast"
    /\ res.ret.kind = "Err"
    /\ base' = res.ret.w
    /\ UNCHANGED <<macro, form, decl, block, pc, erased, res, chain, shared>>

Next ==
    \/ Generate
    \/ \E own \in Owns, T \in Concrete, v \in Vals : New(own, T, v)
    \/ \E U \in Concrete : CallIs(U)
    \/ \E U \in Concrete : CallDowncastRef(U)
    \/ \E U \in Concrete, v \in Vals : SetVal(U, v)
    \/ \E U \in Concrete : CallDowncast(U)
    \/ UnwrapErr

Spec == Init /\ [][Next]_vars

\* ------------------------------------------- one payload, several handles
\* The wrapper a holder sees through handle h.
View(h) == [own |-> cell.own, static |-> hs[h], ty |-> cell.ty, val |-> cell.val]

\* The handles that exist: the payload's strong count is their number.
Live == {h \in Handles : hs[h] # "none"}

\* The interface is declared and generated, one value is erased behind one
\* handle.
InitShared ==
    /\ macro \in Macros
    /\ form = "plain"
    /\ decl \in Decls(form)
    /\ block = Expand(macro, form, decl)
    /\ pc = "live"
    /\ base = Moved
    /\ erased = Moved
    /\ res = NoCall
    /\ chain = NoChain
    /\ cell \in [own : Owns, ty : Concrete, val : Vals]
    /\ hs = [h \in Handles |-> IF h = 1 THEN DynTrait ELSE "none"]
    /\ th = [h \in Handles |-> Idle]

\* Rc::clone / Arc::clone of handle h into the free slot k.
CloneHandle(h, k) ==
    /\ cell.own \in {"Rc", "Arc"}
    /\ hs[h] # "none" /\ th[h].pc = "idle"
    /\ hs[k] = "none"
    /\ hs' = [hs EXCEPT ![k] = hs[h]]
    /\ th' = [th EXCEPT ![k] = Idle]
    /\ UNCHANGED <<single, cell>>

\* Handle h goes out of scope.
DropHandle(h) ==
    /\ hs[h] # "none" /\ th[h].pc = "idle"
    /\ hs' = [hs EXCEPT ![h] = "none"]
    /\ th' = [th EXCEPT ![h] = Idle]
    /\ UNCHANGED <<single, cell>>

\* The holder of h enters is::<U>() or downcast_ref::<U>(): as_any(self)
\* hands out a shared reference to the payload.
BeginProbe(h, op, U) ==
    /\ hs[h] = DynTrait /\ th[h].pc = "idle" /\ th[h].ret.kind # "Panic"
    /\ Emits(block, op, "ref")
    /\ th' = [th EXCEPT ![h] = [pc |-> "called", op |-> op, probe |-> U,
                                snap |-> View(h), ret |-> None]]
    /\ UNCHANGED <<single, cell, hs>>

\* A downcast_ref that moves the value out of the payload and leaves the
\* default behind.
EndProbeTake(h) ==
    /\ th[h].pc = "called"
    /\ th' = [th EXCEPT ![h].pc = "idle",
                        ![h].ret = IF th[h].op = "is"
                                   THEN Bool(is(View(h), th[h].probe))
                                   ELSE downcast_ref(View(h), th[h].probe)]
    /\ cell' = IF th[h].op = "downcast_ref" /\ th[h].probe = cell.ty
               THEN [cell EXCEPT !.val = 0] ELSE cell
    /\ UNCHANGED <<single, hs>>

\* The call returns: the payload's TypeId is read and compared through the
\* reference.
EndProbe(h) ==
    /\ th[h].pc = "called"
    /\ th' = [th EXCEPT ![h].pc = "idle",
                        ![h].ret = IF th[h].op = "is"
                                   THEN Bool(is(View(h), th[h].probe))
                                   ELSE downcast_ref(View(h), th[h].probe)]
    /\ UNCHANGED <<single, cell, hs>>

\* A write through a handle that is not the only one.
WriteHandleAliased(h, U, v) ==
    /\ hs[h] = DynTrait /\ th[h].pc = "idle" /\ th[h].ret.kind # "Panic"
    /\ Emits(block, "downcast_mut", "mut")
    /\ LET r == downcast_mut(View(h), U)
       IN  /\ cell' = IF r.kind = "Some" THEN [cell EXCEPT !.val = v] ELSE cell
           /\ th' = [th EXCEPT ![h] = [pc |-> "idle", op |-> "downcast_mut", probe |-> U,
                                       snap |-> Moved, ret |-> r]]
    /\ UNCHANGED <<single, hs>>

\* if let Some(x) = h.downcast_mut::<U>() { x.0 = v; }: &mut self is to be
\* had from a Box, or from an Rc / Arc that is the only handle (get_mut).
WriteHandle(h, U, v) ==
    /\ hs[h] = DynTrait /\ th[h].pc = "idle" /\ th[h].ret.kind # "Panic"
    /\ Emits(block, "downcast_mut", "mut")
    /\ Live = {h}
    /\ LET r == downcast_mut(View(h), U)
       IN  /\ cell' = IF r.kind = "Some" THEN [cell EXCEPT !.val = v] ELSE cell
           /\ th' = [th EXCEPT ![h] = [pc |-> "idle", op |-> "downcast_mut", probe |-> U,
                                       snap |-> Moved, ret |-> r]]
    /\ UNCHANGED <<single, hs>>

\* h.downcast::<U>(): handle h is moved into the call; what comes back (the
\* re-typed handle, or the handle itself) takes its place. A panic unwinds
\* and drops the handle.
ConsumeHandle(h, U) ==
    /\ hs[h] = DynTrait /\ th[h].pc = "idle" /\ th[h].ret.kind # "Panic"
    /\ Emits(block, "downcast", cell.own)
    /\ LET r == CASE cell.own = "Box" -> downcast_box(View(h), U)
                  [] cell.own = "Rc" -> downcast_rc(View(h), U)
                  [] cell.own = "Arc" -> downcast_arc(View(h), U)
       IN  /\ th' = [th EXCEPT ![h] = [pc |-> "idle", op |-> "downcast", probe |-> U,
                                       snap |-> Moved, ret |-> r]]
           /\ hs' = [hs EXCEPT ![h] = IF r.kind = "Panic" THEN "none" ELSE r.w.static]
    /\ UNCHANGED <<single, cell>>

NextShared ==
    \/ \E h \in Handles, k \in Handles : CloneHandle(h, k)
    \/ \E h \in Handles : DropHandle(h)
    \/ \E h \in Handles, op \in {"is", "downcast_ref"}, U \in Concrete : BeginProbe(h, op, U)
    \/ \E h \in Handles : EndProbe(h)
    \/ \E h \in Handles, U \in Concrete, v \in Vals : WriteHandle(h, U, v)
    \/ \E h \in Handles, U \in Concrete : ConsumeHandle(h, U)

SpecShared == InitShared /\ [][NextShared]_vars

\* ------------------------------------------------------------------ claims
\* A step that moves the caller's wrapper into a consuming downcast.
ConsumingStep == base # Moved /\ base' = Moved

\* C1: on a wrapper holding a T, is::<U>() is true exactly when U = T, for
\* every probed implementor U, in every reachable state (after any probes,
\* writes and failed consuming downcasts).
C1_IsIffSameType ==
    /\ (pc = "live" /\ base # Moved) =>
          \A U \in Concrete : is(base, U) <=> (U = base.ty)
    /\ res.op = "is" =>
          /\ res.ret.kind = "Bool"
          /\ res.ret.flag <=> (res.probe = base.ty)

\* C1 witness: a probe for another type answered false on a wrapper that a
\* failed consuming downcast has handed back.
C1_Witness ==
    /\ res.op = "is" /\ res.probe # base.ty /\ ~res.ret.flag
    /\ chain.n >= 1

\* C2: downcast_ref::<U>() is present exactly when is::<U>() is true (U = T),
\* absent otherwise; when present it refers to the payload's value.
C2_DowncastRefIffIs ==
    res.op = "downcast_ref" =>
        /\ res.ret.kind \in {"Some", "None"}
        /\ (res.ret.kind = "Some") <=> is(base, res.probe)
        /\ (res.ret.kind = "Some") <=> (res.probe = base.ty)
        /\ res.ret.kind = "Some" =>
              /\ res.ret.w.own = "ref"
              /\ res.ret.w.static = res.probe
              /\ res.ret.w.val = base.val

\* C2 witness: a present reference to the value the payload was erased with.
C2_Witness ==
    /\ res.op = "downcast_ref" /\ res.ret.kind = "Some"
    /\ res.ret.w.val = MaxVal /\ erased.val = MaxVal

\* C3: a consuming downcast::<U>() on a wrapper holding a T, U # T, returns
\* Err carrying the wrapper it was given, unchanged, so is::<T>() on the
\* returned wrapper is true.
C3_MismatchReturnsOriginal ==
    [][(ConsumingStep /\ res'.probe # base.ty) =>
          /\ res'.op = "downcast"
          /\ res'.ret = Err(base)
          /\ is(res'.ret.w, base.ty)]_vars

\* C3 witness: the caller has taken the wrapper back out of the Err.
C3_Witness ==
    /\ res.op = "downcast" /\ res.ret.kind = "Err" /\ res.probe # res.ret.w.ty
    /\ base = res.ret.w /\ base.val = MaxVal

\* C4: a consuming downcast::<T>() on a wrapper holding a T returns Ok, and
\* the concretely typed wrapper holds the value the payload had right before
\* the call.
C4_MatchReturnsValue ==
    [][(ConsumingStep /\ res'.probe = base.ty) =>
          /\ res'.op = "downcast"
          /\ res'.ret.kind = "Ok"
          /\ res'.ret.w.static = base.ty
          /\ res'.ret.w.ty = base.ty
          /\ res'.ret.w.val = base.val]_vars

\* C4 witness: a successful consuming downcast of a value that was written
\* through downcast_mut after the erasure.
C4_Witness ==
    /\ res.op = "downcast" /\ res.ret.kind = "Ok"
    /\ res.ret.w.val = MaxVal /\ erased.val # MaxVal


\* C5: a write through a present downcast_mut::<T>() is what the next
\* downcast_ref::<T>() refers to; downcast_mut::<U>() with U # T is absent and
\* leaves the payload as it was.
C5_MutationVisible ==
    /\ [][(base # Moved /\ res'.op = "downcast_mut" /\ res'.probe = base.ty) =>
             /\ res'.ret.kind = "Some"
             /\ res'.ret.w.own = "mut"
             /\ base' = [base EXCEPT !.val = res'.arg]]_vars
    /\ [][(res.op = "downcast_mut" /\ res.ret.kind = "Some"
              /\ res'.op = "downcast_ref" /\ res'.probe = res.probe) =>
             /\ res'.ret.kind = "Some"
             /\ res'.ret.w.val = res.arg]_vars
    /\ [][(base # Moved /\ res'.op = "downcast_mut" /\ res'.probe # base.ty) =>
             /\ res'.ret = None
             /\ base' = base]_vars

\* C5 witness: downcast_ref reads back a value that the preceding
\* downcast_mut wrote over a different one.
C5_Witness ==
    /\ res.op = "downcast_ref" /\ res.ret.kind = "Some"
    /\ res.ret.w.val = MaxVal
    /\ erased.val # MaxVal

\* C6: after any number (>= 1) of failed consuming downcasts, each fed the
\* wrapper the previous one returned, the wrapper is the one the first call
\* was given: a further failing probe returns it again, and downcast::<T>()
\* succeeds with the original payload value.
C6_ChainedProbes ==
    [][(ConsumingStep /\ chain.n >= 1 /\ res.op = "downcast") =>
          IF res'.probe = chain.start.ty
          THEN res'.ret = Ok([chain.start EXCEPT !.static = chain.start.ty])
          ELSE res'.ret = Err(chain.start)]_vars

\* C6 witness: a success after MaxChain failed attempts.
C6_Witness ==
    /\ res.op = "downcast" /\ res.ret.kind = "Ok"
    /\ chain.n = MaxChain /\ res.ret.w.val = MaxVal

\* C7: no operation aborts: is answers a Bool, downcast_ref and downcast_mut
\* Some or None, the consuming downcast Ok or Err; the unwrap on the success
\* path never meets a failed inner downcast.
C7_NoAbort ==
    /\ res.ret.kind # "Panic"
    /\ res.op = "is" => res.ret.kind = "Bool"
    /\ res.op \in {"downcast_ref", "downcast_mut"} => res.ret.kind \in {"Some", "None"}
    /\ res.op = "downcast" => res.ret.kind \in {"Ok", "Err"}
    /\ (pc = "live" /\ base # Moved) =>
          \A U \in Concrete :
              /\ is(base, U) <=> any_is(BoxAny_into_any(base), U)
              /\ is(base, U) <=> any_is(RcAny_into_any(base), U)
              /\ is(base, U) <=> any_is(ArcAny_into_any(base), U)

\* C7 witness: the success path of the Arc downcast has run its unwrap.
C7_Witness ==
    res.op = "downcast" /\ res.ret.kind = "Ok" /\ res.ret.w.own = "Arc"

\* C8: a consuming downcast returns, in both outcomes, a wrapper of the
\* ownership model it was given: Box as Box, Rc as Rc, Arc as Arc.
C8_OwnershipPreserved ==
    [][ConsumingStep =>
          /\ res'.ret.kind \in {"Ok", "Err"}
          /\ res'.ret.w.own = base.own
          /\ res'.ret.w.own \in Owns
          /\ res'.ret.kind = "Ok" => res'.ret.w.static = res'.probe
          /\ res'.ret.kind = "Err" => res'.ret.w.static = DynTrait]_vars

\* C8 witness: an Rc wrapper came back re-typed to the concrete type.
C8_Witness ==
    /\ res.op = "downcast" /\ res.ret.kind = "Ok"
    /\ res.ret.w.own = "Rc" /\ res.ret.w.static = res.probe

\* The names of the methods in an impl block.
MethodNames(b) == {b.methods[i].name : i \in 1..Len(b.methods)}

\* The receivers of the consuming downcasts in an impl block.
ConsumingReceivers(b) ==
    {b.methods[i].self : i \in {j \in 1..Len(b.methods) : b.methods[j].name = "downcast"}}

C10_OneConsumingDowncast ==
    pc # "declared" =>
        /\ Cardinality({i \in 1..Len(block.methods) :
                           block.methods[i].name = "downcast"}) <= 1
        /\ ConsumingReceivers(block) =
              CASE macro = "impl_downcast" -> {}
                [] macro = "impl_downcast_box" -> {"Box"}
                [] macro = "impl_downcast_rc" -> {"Rc"}
                [] macro = "impl_downcast_arc" -> {"Arc"}

\* C10 witness: impl_downcast_rc! on a constrained generic+assoc declaration
\* has emitted its Rc downcast and it has been called.
C10_Witness ==
    /\ macro = "impl_downcast_rc" /\ form = "generic_assoc_where"
    /\ ConsumingReceivers(block) = {"Rc"}
    /\ res.op = "downcast"


\* The name and receiver of each method of an impl block, in order.
MethodSigs(b) == [i \in 1..Len(b.methods) |-> <<b.methods[i].name, b.methods[i].self>>]

\* The block the same macro emits for the interface without parameters.
NonGenericBlock == Expand(macro, "plain", CHOOSE d \in Decls("plain") : TRUE)

\* What an operation of the non-generic interface returns on wrapper w.
NonGenericResult(op, U, w) ==
    CASE op = "is" -> Bool(is(w, U))
      [] op = "downcast_ref" -> downcast_ref(w, U)
      [] op = "downcast_mut" -> downcast_mut(w, U)
      [] op = "downcast" ->
            IF U = w.ty THEN Ok([w EXCEPT !.static = U]) ELSE Err(w)

\* C11: whatever the shape of the declaration (generic, constrained,
\* associated, concrete, ...), the block holds the same operations as the
\* block of the non-generic interface, each bound to the block's own
\* parameter assignment, and every call returns what the non-generic
\* interface returns on the same payload.
C11_ParametrizationKeepsResults ==
    /\ [](pc # "declared" =>
            /\ MethodSigs(block) = MethodSigs(NonGenericBlock)
            /\ \A i \in 1..Len(block.methods) : block.methods[i].bound = block.params)
    /\ [][(base # Moved /\ res' # res) =>
            /\ res'.op \in {"is", "downcast_ref", "downcast_mut", "downcast"}
            /\ \E i \in 1..Len(NonGenericBlock.methods) :
                  NonGenericBlock.methods[i].name = res'.op
            /\ res'.ret = NonGenericResult(res'.op, res'.probe, base)]_vars

\* C11 witness: on a concretely parametrized interface with a concrete
\* associated type, the value written through downcast_mut came back from the
\* succeeding consuming downcast.
C11_Witness ==
    /\ form = "concrete_generic_assoc" /\ macro = "impl_downcast_box"
    /\ res.op = "downcast" /\ res.ret.kind = "Ok"
    /\ res.ret.w.val # erased.val /\ chain.n >= 1


\* The universally quantified slots of a declaration: the idents after `<`
\* and after `assoc`; none for the concrete forms.
ForallSlots(f, d) ==
    IF f \in {"concrete_generic", "concrete_assoc", "concrete_generic_assoc"}
    THEN << >>
    ELSE d.types \o d.atypes

\* The slots the author's where clause constrains.
AuthorConstrained(d) == {d.preds[i].slot : i \in 1..Len(d.preds)}

\* The requirement injected for slot s.
Baseline(s) == Pred(s, "Any + 'static")

\* C14: the block is parametrized over exactly the universally quantified
\* slots; every such slot the author left unconstrained carries the
\* injected requirement Any + 'static; the guard is the injected
\* requirements followed by the author's predicates; a concrete form has no
\* type parameters and no injected requirement.
C14_NormalizedBlock ==
    pc # "declared" =>
        LET slots == ForallSlots(form, decl)
            n == Len(slots)
        IN  /\ block.generics = slots
            /\ \A i \in 1..n :
                  slots[i] \notin AuthorConstrained(decl) =>
                      \E j \in 1..Len(block.where) : block.where[j] = Baseline(slots[i])
            /\ Len(block.where) = n + Len(decl.preds)
            /\ \A j \in 1..n : block.where[j].bound = "Any + 'static"
            /\ SubSeq(block.where, n + 1, Len(block.where)) = decl.preds
            /\ form \in {"concrete_generic", "concrete_assoc", "concrete_generic_assoc"} =>
                  block.generics = << >> /\ block.where = << >>

\* C14 witness: a generic + assoc declaration whose where clause constrains
\* the generic parameter only; the associated type got the injected
\* requirement.
C14_Witness ==
    /\ pc # "declared" /\ form = "generic_assoc_where"
    /\ Len(decl.preds) = 1
    /\ \E i \in 1..Len(decl.atypes) :
          /\ decl.atypes[i] \notin AuthorConstrained(decl)
          /\ \E j \in 1..Len(block.where) : block.where[j] = Baseline(decl.atypes[i])


\* What a probe returns to a holder that runs alone on the wrapper w.
AloneResult(op, U, w) ==
    IF op = "is"
    THEN Bool(U = w.ty)
    ELSE IF U = w.ty
         THEN Some([own |-> "ref", static |-> U, ty |-> w.ty, val |-> w.val])
         ELSE None

\* C12: is::<U>() and downcast_ref::<U>() have no side effect: entering and
\* leaving the call leaves the payload's type and value, the ownership model
\* and the handles as they were, and the result a holder has got is the
\* result the same call gives again.
C12_ProbesHaveNoEffect ==
    /\ [][\A h \in Handles :
            (th'[h] # th[h] /\ th'[h].op \in {"is", "downcast_ref"}) =>
                /\ cell' = cell
                /\ hs' = hs
                /\ Cardinality(Live') = Cardinality(Live)]_vars
    /\ [](\A h \in Handles :
            (hs[h] # "none" /\ th[h].pc = "idle" /\ th[h].op \in {"is", "downcast_ref"}) =>
                th[h].ret = IF th[h].op = "is"
                            THEN Bool(is(View(h), th[h].probe))
                            ELSE downcast_ref(View(h), th[h].probe))

\* C12 witness: downcast_ref returned a present reference to a non-default
\* value held through two Rc handles.
C12_Witness ==
    /\ cell.own = "Rc" /\ Cardinality(Live) = 2 /\ cell.val = MaxVal
    /\ \E h \in Handles :
          /\ th[h].pc = "idle" /\ th[h].op = "downcast_ref"
          /\ th[h].ret.kind = "Some" /\ th[h].ret.w.val = MaxVal

\* C13: under Arc, holders that probe concurrently each get the result they
\* would get alone: while a call is under way the payload is as it was when
\* the call began, and what the call returns is decided by that payload.
C13_ConcurrentProbes ==
    cell.own = "Arc" =>
        \A h \in Handles :
            /\ th[h].pc = "called" =>
                  /\ hs[h] = DynTrait
                  /\ cell.ty = th[h].snap.ty
                  /\ cell.val = th[h].snap.val
            /\ (th[h].pc = "idle" /\ th[h].op \in {"is", "downcast_ref"}) =>
                  /\ th[h].ret = AloneResult(th[h].op, th[h].probe, th[h].snap)
                  /\ cell.ty = th[h].snap.ty
                  /\ cell.val = th[h].snap.val

\* C13 witness: two holders of one Arc payload, one inside downcast_ref for
\* the payload's type while the other has got its present reference.
C13_Witness ==
    /\ cell.own = "Arc" /\ cell.val = MaxVal
    /\ \E h \in Handles, k \in Handles :
          /\ h # k
          /\ th[h].pc = "called" /\ th[h].op = "downcast_ref" /\ th[h].probe = cell.ty
          /\ th[k].pc = "idle" /\ th[k].op = "downcast_ref"
          /\ th[k].ret.kind = "Some" /\ th[k].ret.w.val = MaxVal

\* C15: with n >= 1 handles to one Rc / Arc payload, a consuming downcast on
\* one of them leaves n handles: the consumed handle is replaced by the one
\* returned (re-typed on success, itself on failure), and every other handle
\* and the payload are as before.
C15_HandleCountKept ==
    [][\A h \in Handles :
          (cell.own \in {"Rc", "Arc"} /\ th'[h].op = "downcast"
              /\ (th'[h] # th[h] \/ hs'[h] # hs[h])) =>
              /\ Cardinality(Live') = Cardinality(Live)
              /\ Cardinality(Live) >= 1
              /\ \A k \in Handles \ {h} : hs'[k] = hs[k]
              /\ cell' = cell
              /\ hs'[h] = IF th'[h].probe = cell.ty THEN cell.ty ELSE DynTrait
              /\ th'[h].ret.kind = IF th'[h].probe = cell.ty THEN "Ok" ELSE "Err"
              /\ th'[h].ret.w = [View(h) EXCEPT !.static = hs'[h]]]_vars

\* C15 witness: of two Arc handles one has been re-typed to the concrete
\* type by a successful downcast, the other is still typed as the interface.
C15_Witness ==
    /\ cell.own = "Arc" /\ Cardinality(Live) = 2
    /\ \E h \in Handles, k \in Handles :
          /\ th[h].op = "downcast" /\ th[h].ret.kind = "Ok" /\ hs[h] = cell.ty
          /\ hs[k] = DynTrait

====
